---- MODULE Spec2Model ----
(***************************************************************************)
(* script-replacer: the template scanner, form generator, substitution     *)
(* renderer and output writer of src/workers.py, driven by the button      *)
(* handlers of src/ui.py.  Text is a sequence of one-character strings;    *)
(* row and column indices are the 0-based values the code uses.            *)
(***************************************************************************)
EXTENDS Integers, Sequences, FiniteSets, TLC

\* ------------------------------------------------------------------ bounds
MaxPieces == 3       \* a template file is a concatenation of at most this many pieces
FormRows == 3        \* rows of the blank form grid (500 in the code)
FormCols == 3        \* columns of the blank form grid (50 in the code)
MaxClicks == 3       \* clicks of the Form and Replace buttons explored by SpecUI
MaxInstances == 2    \* instance columns the user fills, explored by SpecRun

\* ------------------------------------------------------------------ text
WordChars == {"A", "B", "x"}    \* characters matched by \w
Whitespace == {" ", "\n"}       \* characters matched by \s
LineBreaks == {"\n"}            \* the boundaries str.splitlines() splits on

Pieces ==
  { <<"$">>, <<"A">>, <<" ">>, <<"\n">>, <<"$", "A", "$">>, <<"$", "B", "$">> }

RECURSIVE Concats(_)
Concats(n) ==
  IF n = 0 THEN { <<>> }
  ELSE LET prev == Concats(n - 1) IN prev \cup { s \o p : s \in prev, p \in Pieces }

Templates == Concats(MaxPieces)
\* a few templates for the runs over several columns and over repeated clicks
RunTemplates ==
  { <<"$", "A", "$", "$", "B", "$">>,
    <<"$", "B", "$", " ", "$", "A", "$", "$", "B", "$">>,
    <<"A", "\n", "\n", "$", "A", "$", "A">>,
    <<" ", "\n", "$", "A", "$">> }
UITemplates == { <<>>, <<"$", "A", "$">> }
Values == { <<>>, <<" ">>, <<"x">> }

\* ----------------------------------------------------- the pattern \$\w+\$
RECURSIVE WordRun(_, _)
WordRun(s, i) ==
  IF i <= Len(s) /\ s[i] \in WordChars THEN 1 + WordRun(s, i + 1) ELSE 0

\* length of the match of \$\w+\$ that starts at position i of s, 0 when none
MatchAt(s, i) ==
  IF i <= Len(s) /\ s[i] = "$"
  THEN LET n == WordRun(s, i + 1)
       IN IF n >= 1 /\ i + n + 1 <= Len(s) /\ s[i + n + 1] = "$" THEN n + 2 ELSE 0
  ELSE 0

\* the leftmost non-overlapping matches from position i on, as <<start, length>>
RECURSIVE Scan(_, _)
Scan(s, i) ==
  IF i > Len(s) THEN <<>>
  ELSE LET n == MatchAt(s, i)
       IN IF n > 0 THEN << <<i, n>> >> \o Scan(s, i + n) ELSE Scan(s, i + 1)

re_findall(s) ==
  LET m == Scan(s, 1)
  IN [k \in 1..Len(m) |-> SubSeq(s, m[k][1], m[k][1] + m[k][2] - 1)]

re_split(s) ==
  LET m == Scan(s, 1)
  IN [k \in 1..(Len(m) + 1) |->
        SubSeq(s, IF k = 1 THEN 1 ELSE m[k - 1][1] + m[k - 1][2],
                  IF k = Len(m) + 1 THEN Len(s) ELSE m[k][1] - 1)]

\* a blank test that takes only the empty text for blank
IsBlank_empty(s) == s = <<>>

\* re.search(r'^\s*$', s) finds a match
IsBlank(s) == \A i \in 1..Len(s) : s[i] \in Whitespace

RECURSIVE lstrip(_)
lstrip(s) == IF s # <<>> /\ Head(s) \in Whitespace THEN lstrip(Tail(s)) ELSE s

RECURSIVE rstrip(_)
rstrip(s) ==
  IF s # <<>> /\ s[Len(s)] \in Whitespace THEN rstrip(SubSeq(s, 1, Len(s) - 1)) ELSE s

strip(s) == rstrip(lstrip(s))

\* str.splitlines(): no line for the empty text, none after a final line break
RECURSIVE splitlines(_)
splitlines(s) ==
  IF s = <<>> THEN <<>>
  ELSE LET brk == { i \in 1..Len(s) : s[i] \in LineBreaks }
       IN IF brk = {} THEN << s >>
          ELSE LET k == CHOOSE i \in brk : \A j \in brk : i <= j
               IN << SubSeq(s, 1, k - 1) >> \o splitlines(SubSeq(s, k + 1, Len(s)))

\* ------------------------------------------------ FillValuesWorker helpers
RECURSIVE AppendUnique(_, _)
AppendUnique(found, var_list) ==
  IF found = <<>> THEN var_list
  ELSE LET var == Head(found)
       IN AppendUnique(Tail(found),
            IF \E k \in 1..Len(var_list) : var_list[k] = var
            THEN var_list ELSE Append(var_list, var))

\* the scan without the membership test
get_template_vars_all(content) ==
  [content |-> content, var_list |-> re_findall(content)]

get_template_vars(content) ==
  [content |-> content, var_list |-> AppendUnique(re_findall(content), <<>>)]

\* the variables written one row down, as below a header row
create_excel_form_header(var_list) ==
  LET nrows == IF Len(var_list) + 1 > FormRows THEN Len(var_list) + 1 ELSE FormRows
  IN [r \in 1..nrows |->
        [c \in 1..FormCols |->
           IF c = 1 /\ r >= 2 /\ r <= Len(var_list) + 1 THEN var_list[r - 1] ELSE <<>>]]

\* the blank form grid, the variables written into column 0 (rows and columns
\* are 1-based here: cell (row, col) of the sheet is grid[row + 1][col + 1])
create_excel_form(var_list) ==
  LET nrows == IF Len(var_list) > FormRows THEN Len(var_list) ELSE FormRows
  IN [r \in 1..nrows |->
        [c \in 1..FormCols |->
           IF c = 1 /\ r <= Len(var_list) THEN var_list[r] ELSE <<>>]]

\* ----------------------------------------------- BuildOutputWorker helpers
ftb == "ftb"      \* workbook.ftbody
fthl == "fthl"    \* workbook.fthighlight
fte == "fte"      \* workbook.fterror
ColWidth == 95

\* one (format, text) pair of a rich-text line
Seg(fmt, text) == [fmt |-> fmt, text |-> text]

nrows(sheet) == Len(sheet)
ncols(sheet) == IF sheet = <<>> THEN 0 ELSE Len(sheet[1])
cell_value(sheet, row, col) == sheet[row + 1][col + 1]

DictSet(d, k, v) == [x \in (DOMAIN d) \cup {k} |-> IF x = k THEN v ELSE d[x]]
\* dict.get(key, '')
dict_get(d, k) == IF k \in DOMAIN d THEN d[k] ELSE <<>>

\* the dict comprehension of run(): a later row replaces an earlier equal key
RECURSIVE repl_rows(_, _, _, _)
repl_rows(sheet, col_idx, row, d) ==
  IF row >= nrows(sheet) THEN d
  ELSE repl_rows(sheet, col_idx, row + 1,
                 DictSet(d, cell_value(sheet, row, 0), cell_value(sheet, row, col_idx)))

repl_dict(sheet, col_idx) == repl_rows(sheet, col_idx, 0, <<>>)

\* the loop over the matches of one line, from match i (0-based) on
RECURSIVE format_tokens(_, _, _, _)
format_tokens(non_reg, reg, repl, i) ==
  IF i >= Len(reg) THEN <<>>
  ELSE LET value == dict_get(repl, reg[i + 1])
       IN (IF ~IsBlank(non_reg[i + 1]) THEN << Seg(ftb, non_reg[i + 1]) >> ELSE <<>>)
          \o (IF ~IsBlank(value) THEN << Seg(fthl, value) >>
              ELSE << Seg(fte, reg[i + 1]) >>)
          \o format_tokens(non_reg, reg, repl, i + 1)

format_line(line, repl) ==
  LET non_reg == re_split(line)
      reg == re_findall(line)
  IN format_tokens(non_reg, reg, repl, 0)
     \o (IF ~IsBlank(non_reg[Len(non_reg)])
         THEN << Seg(ftb, non_reg[Len(non_reg)]) >> ELSE <<>>)

\* the lines taken by str.split('\n'): one line for the empty text
RECURSIVE split_newline(_)
split_newline(s) ==
  LET brk == { i \in 1..Len(s) : s[i] = "\n" }
  IN IF brk = {} THEN << s >>
     ELSE LET k == CHOOSE i \in brk : \A j \in brk : i <= j
          IN << SubSeq(s, 1, k - 1) >> \o split_newline(SubSeq(s, k + 1, Len(s)))

sub_get_string_split(cfg, repl) ==
  LET lines == split_newline(cfg)
  IN [k \in 1..Len(lines) |-> format_line(lines[k], repl)]

sub_get_string(cfg, repl) ==
  LET lines == splitlines(cfg)
  IN [k \in 1..Len(lines) |-> format_line(lines[k], repl)]

\* a worksheet being written: the set_column calls in order, and the cells
EmptySheet == [columns |-> <<>>, cells |-> <<>>]
set_column(ws, col_index, col_width) ==
  [ws EXCEPT !.columns = Append(@, <<col_index, col_width>>)]
write_cell(ws, row, col, call, args) ==
  [ws EXCEPT !.cells = DictSet(@, <<row, col>>, [call |-> call, args |-> args])]

has_fmt(cfg_line, fmt) == \E k \in 1..Len(cfg_line) : cfg_line[k].fmt = fmt

RECURSIVE write_lines(_, _, _, _)
write_lines(ws, cfg_lines, row_index, col_index) ==
  IF cfg_lines = <<>> THEN ws
  ELSE LET cfg_line == Head(cfg_lines)
           last == cfg_line[Len(cfg_line)].text
           ws2 ==
             IF has_fmt(cfg_line, ftb)
                /\ (has_fmt(cfg_line, fthl) \/ has_fmt(cfg_line, fte))
             THEN write_cell(ws, row_index, col_index, "write_rich_string", cfg_line)
             ELSE IF has_fmt(cfg_line, fthl)
             THEN write_cell(ws, row_index, col_index, "write_string",
                             << Seg(fthl, strip(last)) >>)
             ELSE IF has_fmt(cfg_line, fte)
             THEN write_cell(ws, row_index, col_index, "write_string",
                             << Seg(fte, strip(last)) >>)
             ELSE IF has_fmt(cfg_line, ftb)
             THEN write_cell(ws, row_index, col_index, "write_string",
                             << Seg(ftb, last) >>)
             ELSE ws
       IN write_lines(ws2, Tail(cfg_lines), row_index + 1, col_index)

\* the row advanced only inside the branches that write
RECURSIVE write_lines_skip(_, _, _, _)
write_lines_skip(ws, cfg_lines, row_index, col_index) ==
  IF cfg_lines = <<>> THEN ws
  ELSE IF Head(cfg_lines) = <<>>
  THEN write_lines_skip(ws, Tail(cfg_lines), row_index, col_index)
  ELSE write_lines_skip(write_lines(ws, << Head(cfg_lines) >>, row_index, col_index),
                        Tail(cfg_lines), row_index + 1, col_index)

write_rich_table_skip(ws, cfg_lines, row_index, col_index, col_width) ==
  write_lines_skip(set_column(ws, col_index, col_width), cfg_lines, row_index,
                   col_index)

write_rich_table(ws, cfg_lines, row_index, col_index, col_width) ==
  write_lines(set_column(ws, col_index, col_width), cfg_lines, row_index, col_index)

\* ------------------------------------------------------------------ state
VARIABLES
  tfile,          \* content of the template file on disk
  budget,         \* what is explored: clicks of Form, of Replace and of both,
                  \* and the instance columns the user fills
  clicked,        \* the clicks made so far of the Form and Replace buttons
  data,           \* Form.data: the keys present and their values
  output_report,  \* Form.output_report: 0 is '', else the id of an output path
  output_dir,     \* whether os.makedirs(output_dir) has run
  log,            \* the messages logged by the handlers of Form so far
  ui_pc,          \* the GUI thread: "idle", or "connect" inside build_output_event
  fill_thread,    \* Form.fill_thread: index into fw, 0 before the first
  build_thread,   \* Form.build_thread: index into bw, 0 before the first
  fw,             \* every FillValuesWorker created, in creation order
  bw,             \* every BuildOutputWorker created, in creation order
  files,          \* the form files: files[p] belongs to temporary path p
  outputs,        \* the output workbooks on disk, by output path id
  events,         \* slot calls queued for the GUI thread, oldest first
  crashed         \* the process was aborted

vars ==
  << tfile, budget, clicked, data, output_report, output_dir, log, ui_pc,
     fill_thread, build_thread, fw, bw, files, outputs, events, crashed >>

InitWith(templates, clicks) ==
  /\ tfile \in templates
  /\ budget = clicks
  /\ clicked = [fill |-> 0, build |-> 0]
  /\ data = [keys |-> {}, config_template |-> <<>>, var_list |-> <<>>,
             variable_file_path |-> 0]
  /\ output_report = 0
  /\ output_dir = FALSE
  /\ log = {}
  /\ ui_pc = "idle"
  /\ fill_thread = 0
  /\ build_thread = 0
  /\ fw = <<>>
  /\ bw = <<>>
  /\ files = <<>>
  /\ outputs = <<>>
  /\ events = <<>>
  /\ crashed = FALSE

\* a click of Form and one of Replace, one instance column, every template
Init ==
  InitWith(Templates, [fill |-> 1, build |-> 1, clicks |-> 2, cols |-> 1])
\* a click of Form and one of Replace, several instance columns
InitRun ==
  InitWith(RunTemplates,
           [fill |-> 1, build |-> 1, clicks |-> 2, cols |-> MaxInstances])
\* repeated clicks, the instance columns left as generated
InitUI ==
  InitWith(UITemplates, [fill |-> MaxClicks, build |-> MaxClicks,
                         clicks |-> MaxClicks, cols |-> 0])

GuiIdle == ~crashed /\ ui_pc = "idle"

\* ------------------------------------------------------------ Form (ui.py)
select_template_event ==
  /\ GuiIdle
  /\ \E file_path \in BOOLEAN :   \* the dialog returns a path, or '' on cancel
       IF file_path
       THEN /\ data' = [data EXCEPT !.keys = @ \cup {"template_file"}]
            /\ log' = log \cup {"Now click \"Fill Variables\" and fill up the values"}
       ELSE UNCHANGED <<data, log>>
  /\ UNCHANGED << tfile, budget, clicked, output_report, output_dir, ui_pc,
                  fill_thread, build_thread, fw, bw, files, outputs, events,
                  crashed >>

NewFillValuesWorker ==
  [pc |-> "started", running |-> TRUE, template_file |-> TRUE,
   config_template |-> <<>>, var_list |-> <<>>, variable_file_path |-> 0]

fill_values_event ==
  /\ GuiIdle
  /\ clicked.fill < budget.fill
  /\ clicked.fill + clicked.build < budget.clicks
  /\ clicked' = [clicked EXCEPT !.fill = @ + 1]
  /\ IF "template_file" \notin data.keys
     THEN /\ log' = log \cup {"No template selected"}
          /\ UNCHANGED <<fw, fill_thread>>
     ELSE /\ fw' = Append(fw, NewFillValuesWorker)
          /\ fill_thread' = Len(fw) + 1
          /\ UNCHANGED log
  /\ UNCHANGED << tfile, budget, data, output_report, output_dir, ui_pc,
                  build_thread, bw, files, outputs, events, crashed >>

\* the slot connected to fill_complete, run by the GUI thread's event loop
fill_values_complete ==
  /\ GuiIdle
  /\ events # <<>>
  /\ Head(events).signal = "fill_complete"
  /\ LET result == Head(events).result
     IN data' = [keys |-> data.keys \cup {"config_template", "var_list",
                                          "variable_file_path"},
                 config_template |-> result.config_template,
                 var_list |-> result.var_list,
                 variable_file_path |-> result.variable_file_path]
  /\ events' = Tail(events)
  /\ UNCHANGED << tfile, budget, clicked, output_report, output_dir, log,
                  ui_pc, fill_thread, build_thread, fw, bw, files, outputs,
                  crashed >>

\* the guard left out
BuildReady_always == TRUE

BuildReady == "variable_file_path" \in data.keys /\ "config_template" \in data.keys

NewBuildOutputWorker(template, variable_file_path, report) ==
  [pc |-> "started", running |-> TRUE, connected |-> FALSE, notice |-> "none",
   template |-> template, variable_file_path |-> variable_file_path,
   output_report |-> report, form |-> <<>>, col_idx |-> 0, repl_dict |-> <<>>,
   cfg |-> <<>>, worksheet |-> EmptySheet, remove_failed |-> FALSE]

\* up to build_thread.start(); the finished signal is connected afterwards
build_output_event ==
  /\ GuiIdle
  /\ clicked.build < budget.build
  /\ clicked.fill + clicked.build < budget.clicks
  /\ clicked' = [clicked EXCEPT !.build = @ + 1]
  /\ IF ~BuildReady
     THEN /\ log' = log \cup {"Missing template or variable file"}
          /\ UNCHANGED <<output_dir, output_report, bw, build_thread, ui_pc>>
     ELSE /\ output_dir' = TRUE
          \* the file name carries the minute: the same path within one minute
          /\ \E report \in ({output_report} \ {0}) \cup {output_report + 1} :
               /\ output_report' = report
               /\ bw' = Append(bw, NewBuildOutputWorker(data.config_template,
                                     data.variable_file_path, report))
          /\ build_thread' = Len(bw) + 1
          /\ ui_pc' = "connect"
          /\ UNCHANGED log
  /\ UNCHANGED <<tfile, budget, data, fill_thread, fw, files, outputs, events, crashed>>

\* self.build_thread.finished.connect(self.build_finished)
build_connect ==
  /\ ~crashed
  /\ ui_pc = "connect"
  /\ bw' = [bw EXCEPT ![build_thread].connected = TRUE]
  /\ ui_pc' = "idle"
  /\ UNCHANGED << tfile, budget, clicked, data, output_report, output_dir, log,
                  fill_thread, build_thread, fw, files, outputs, events,
                  crashed >>

\* the slot connected to finished: the "Task completed!!" message box
build_finished ==
  /\ GuiIdle
  /\ events # <<>>
  /\ Head(events).signal = "finished"
  /\ bw' = [bw EXCEPT ![Head(events).sender].notice = "delivered"]
  /\ events' = Tail(events)
  /\ UNCHANGED << tfile, budget, clicked, data, output_report, output_dir, log,
                  ui_pc, fill_thread, build_thread, fw, files, outputs,
                  crashed >>

\* the user edits the form that open_path opened and saves it before handing
\* it over with Replace (successive saves amount to the last one): the saved
\* sheet has the label column and M instance columns; labels may be cleared
user_fill_form ==
  /\ ~crashed
  /\ "variable_file_path" \in data.keys
  /\ LET p == data.variable_file_path
     IN /\ files[p].exists
        /\ ~files[p].saved
        /\ \A i \in 1..Len(bw) : bw[i].variable_file_path # p
        /\ LET grid == files[p].grid
               labelled == { r \in 1..Len(grid) : grid[r][1] # <<>> }
           IN \E M \in 0..budget.cols :
              \E cells \in [labelled -> [1..M -> Values]] :
              \E cleared \in SUBSET labelled :
                files' = [files EXCEPT
                            ![p].saved = TRUE,
                            ![p].labels_edited = cleared # {},
                            ![p].grid =
                              [r \in 1..Len(grid) |-> [c \in 1..(M + 1) |->
                                 IF c = 1
                                 THEN (IF r \in cleared THEN <<>> ELSE grid[r][1])
                                 ELSE IF r \in labelled THEN cells[r][c - 1]
                                 ELSE <<>>]]]
  /\ UNCHANGED << tfile, budget, clicked, data, output_report, output_dir, log,
                  ui_pc, fill_thread, build_thread, fw, bw, outputs, events,
                  crashed >>

\* ------------------------------------------------ FillValuesWorker.run
fw_scan ==
  \E j \in 1..Len(fw) :
    /\ ~crashed
    /\ fw[j].pc = "started"
    /\ IF ~fw[j].template_file
       THEN fw' = [fw EXCEPT ![j].pc = "returned"]
       ELSE LET got == get_template_vars(tfile)
            IN fw' = [fw EXCEPT ![j].pc = "scanned",
                                ![j].config_template = got.content,
                                ![j].var_list = got.var_list]
    /\ UNCHANGED << tfile, budget, clicked, data, output_report, output_dir,
                    log, ui_pc, fill_thread, build_thread, bw, files, outputs,
                    events, crashed >>

fw_create_form ==
  \E j \in 1..Len(fw) :
    /\ ~crashed
    /\ fw[j].pc = "scanned"
    /\ files' = Append(files, [exists |-> TRUE, saved |-> FALSE,
                               labels_edited |-> FALSE,
                               grid |-> create_excel_form(fw[j].var_list)])
    /\ fw' = [fw EXCEPT ![j].pc = "formed", ![j].variable_file_path = Len(files) + 1]
    /\ UNCHANGED << tfile, budget, clicked, data, output_report, output_dir,
                    log, ui_pc, fill_thread, build_thread, bw, outputs, events,
                    crashed >>

\* fill_complete.emit(...) and the end of run(); a worker that Form no longer
\* references may be destroyed while its thread is still running
fw_emit ==
  \E j \in 1..Len(fw) :
    /\ ~crashed
    /\ fw[j].running
    /\ fw[j].pc \in {"formed", "returned"}
    /\ fw' = [fw EXCEPT ![j].running = FALSE]
    /\ events' =
         IF fw[j].pc = "formed"
         THEN Append(events, [signal |-> "fill_complete", sender |-> j,
                              result |-> [config_template |-> fw[j].config_template,
                                          var_list |-> fw[j].var_list,
                                          variable_file_path |-> fw[j].variable_file_path]])
         ELSE events
    /\ \E abort \in (IF j # fill_thread THEN BOOLEAN ELSE {FALSE}) : crashed' = abort
    /\ UNCHANGED << tfile, budget, clicked, data, output_report, output_dir,
                    log, ui_pc, fill_thread, build_thread, bw, files,
                    outputs >>

\* ------------------------------------------------ BuildOutputWorker.run
\* the guard, then XLR(variable_file_path).book.sheet_by_index(0)
bw_read_form ==
  \E i \in 1..Len(bw) :
    /\ ~crashed
    /\ bw[i].pc = "started"
    /\ LET p == bw[i].variable_file_path
       IN IF p = 0
          THEN bw' = [bw EXCEPT ![i].pc = "returned"]
          ELSE IF ~files[p].exists
          THEN bw' = [bw EXCEPT ![i].pc = "raised"]
          ELSE bw' = [bw EXCEPT ![i].pc = "read", ![i].form = files[p].grid]
    /\ UNCHANGED << tfile, budget, clicked, data, output_report, output_dir,
                    log, ui_pc, fill_thread, build_thread, fw, files, outputs,
                    events, crashed >>

\* XLBW(output_report) and add_worksheet('Output')
bw_open_output ==
  \E i \in 1..Len(bw) :
    /\ ~crashed
    /\ bw[i].pc = "read"
    /\ bw' = [bw EXCEPT ![i].pc = "writing", ![i].worksheet = EmptySheet,
                        ![i].col_idx = 1]
    /\ UNCHANGED << tfile, budget, clicked, data, output_report, output_dir,
                    log, ui_pc, fill_thread, build_thread, fw, files, outputs,
                    events, crashed >>

\* one iteration of `for col_idx in range(1, worksheet_form.ncols)`
bw_column ==
  \E i \in 1..Len(bw) :
    /\ ~crashed
    /\ bw[i].pc = "writing"
    /\ bw[i].col_idx < ncols(bw[i].form)
    /\ LET col_idx == bw[i].col_idx
           repl == repl_dict(bw[i].form, col_idx)
           cfg == sub_get_string(bw[i].template, repl)
       IN bw' = [bw EXCEPT ![i].repl_dict = repl,
                           ![i].cfg = cfg,
                           ![i].worksheet =
                             write_rich_table(@, cfg, 0, col_idx - 1, ColWidth),
                           ![i].col_idx = col_idx + 1]
    /\ UNCHANGED << tfile, budget, clicked, data, output_report, output_dir,
                    log, ui_pc, fill_thread, build_thread, fw, files, outputs,
                    events, crashed >>

\* workbook.close() reached before the loop has ended
bw_close_early ==
  \E i \in 1..Len(bw) :
    /\ ~crashed
    /\ bw[i].pc = "writing"
    /\ \E created \in BOOLEAN :
         IF created
         THEN /\ outputs' = DictSet(outputs, bw[i].output_report, bw[i].worksheet)
              /\ bw' = [bw EXCEPT ![i].pc = "closed"]
         ELSE /\ outputs' = outputs
              /\ bw' = [bw EXCEPT ![i].pc = "raised"]
    /\ UNCHANGED << tfile, budget, clicked, data, output_report, output_dir,
                    log, ui_pc, fill_thread, build_thread, fw, files, events,
                    crashed >>

\* workbook.close() after the loop: the file at output_report is created and
\* written here, or the call raises because it cannot be
bw_close ==
  \E i \in 1..Len(bw) :
    /\ ~crashed
    /\ bw[i].pc = "writing"
    /\ bw[i].col_idx >= ncols(bw[i].form)
    /\ \E created \in BOOLEAN :
         IF created
         THEN /\ outputs' = DictSet(outputs, bw[i].output_report, bw[i].worksheet)
              /\ bw' = [bw EXCEPT ![i].pc = "closed"]
         ELSE /\ outputs' = outputs
              /\ bw' = [bw EXCEPT ![i].pc = "raised"]
    /\ UNCHANGED << tfile, budget, clicked, data, output_report, output_dir,
                    log, ui_pc, fill_thread, build_thread, fw, files, events,
                    crashed >>

\* os.remove(variable_file_path) inside try/except
bw_remove ==
  \E i \in 1..Len(bw) :
    /\ ~crashed
    /\ bw[i].pc = "closed"
    /\ LET p == bw[i].variable_file_path
       IN IF files[p].exists
          THEN /\ files' = [files EXCEPT ![p].exists = FALSE]
               /\ bw' = [bw EXCEPT ![i].pc = "removed"]
          ELSE /\ files' = files
               /\ bw' = [bw EXCEPT ![i].pc = "removed", ![i].remove_failed = TRUE]
    /\ UNCHANGED << tfile, budget, clicked, data, output_report, output_dir,
                    log, ui_pc, fill_thread, build_thread, fw, outputs, events,
                    crashed >>

\* run() is left: by return, or by the exception of a failed read or of a
\* failed close.  The thread ends and emits finished to the slots connected by
\* then.  An exception that leaves run(), or a worker Form no longer
\* references, may abort the process.
bw_finish ==
  \E i \in 1..Len(bw) :
    /\ ~crashed
    /\ bw[i].running
    /\ bw[i].pc \in {"returned", "raised", "removed"}
    /\ \E abort \in (IF bw[i].pc = "raised" \/ i # build_thread
                     THEN BOOLEAN ELSE {FALSE}) :
         /\ crashed' = abort
         /\ IF ~abort /\ bw[i].connected
            THEN /\ bw' = [bw EXCEPT ![i].running = FALSE, ![i].notice = "queued"]
                 /\ events' = Append(events, [signal |-> "finished", sender |-> i])
            ELSE /\ bw' = [bw EXCEPT ![i].running = FALSE, ![i].notice = "lost"]
                 /\ events' = events
    /\ UNCHANGED << tfile, budget, clicked, data, output_report, output_dir,
                    log, ui_pc, fill_thread, build_thread, fw, files,
                    outputs >>

Next ==
  \/ select_template_event
  \/ fill_values_event
  \/ fill_values_complete
  \/ build_output_event
  \/ build_connect
  \/ build_finished
  \/ user_fill_form
  \/ fw_scan
  \/ fw_create_form
  \/ fw_emit
  \/ bw_read_form
  \/ bw_open_output
  \/ bw_column
  \/ bw_close
  \/ bw_remove
  \/ bw_finish

Spec == Init /\ [][Next]_vars
SpecRun == InitRun /\ [][Next]_vars
SpecUI == InitUI /\ [][Next]_vars
\* ----------------------------------------------------------------- claims
\* a worker whose loop has rendered and written at least one column; cfg and
\* repl_dict are those of the column written last, form column col_idx - 1
Rendered(i) == bw[i].pc \in {"writing", "closed", "removed"} /\ bw[i].col_idx > 1

NonBlank(v) == \E n \in 1..Len(v) : v[n] \notin {" ", "\n"}
NonLiteral(cfg_line) == SelectSeq(cfg_line, LAMBDA seg : seg.fmt # ftb)

\* C1: every placeholder occurrence of every template line gets exactly one
\* segment: FILLED with the mapped value when the token is a key of the mapping
\* with a value that is not blank, else UNRESOLVED with the token text.
C1_TokenSegments ==
  \A i \in 1..Len(bw) : Rendered(i) =>
    LET lines == splitlines(bw[i].template)
        repl == bw[i].repl_dict
    IN /\ Len(bw[i].cfg) = Len(lines)
       /\ \A k \in 1..Len(lines) :
            LET tokens == re_findall(lines[k])
                segs == NonLiteral(bw[i].cfg[k])
            IN /\ Len(segs) = Len(tokens)
               /\ \A n \in 1..Len(tokens) :
                    IF tokens[n] \in DOMAIN repl /\ NonBlank(repl[tokens[n]])
                    THEN segs[n] = [fmt |-> fthl, text |-> repl[tokens[n]]]
                    ELSE segs[n] = [fmt |-> fte, text |-> tokens[n]]

\* a rendering with a token that is no key of the mapping and a token mapped
\* to a whitespace-only value
C1_Witness ==
  \E i \in 1..Len(bw) :
    /\ Rendered(i)
    /\ LET tokens == re_findall(bw[i].template)
       IN /\ \E n \in 1..Len(tokens) : tokens[n] \notin DOMAIN bw[i].repl_dict
          /\ \E n \in 1..Len(tokens) :
               /\ tokens[n] \in DOMAIN bw[i].repl_dict
               /\ bw[i].repl_dict[tokens[n]] = <<" ">>

RECURSIVE ConcatAll(_)
ConcatAll(texts) == IF texts = <<>> THEN <<>> ELSE Head(texts) \o ConcatAll(Tail(texts))

\* the line with every placeholder occurrence replaced by its mapped value
Substituted(line, repl) ==
  LET lit == re_split(line)
      tok == re_findall(line)
  IN ConcatAll([n \in 1..(2 * Len(tok) + 1) |->
       IF n % 2 = 1 THEN lit[(n + 1) \div 2] ELSE repl[tok[n \div 2]]])

AllMapped(template, repl) ==
  LET tokens == re_findall(template)
  IN \A n \in 1..Len(tokens) : tokens[n] \in DOMAIN repl /\ NonBlank(repl[tokens[n]])

\* C2: when every token of the template is mapped to a value that is not
\* blank, the rendering has no UNRESOLVED segment and the texts of each line's
\* segments, concatenated, are the line with every token replaced by its value.
C2_RoundTrip ==
  \A i \in 1..Len(bw) : (Rendered(i) /\ AllMapped(bw[i].template, bw[i].repl_dict)) =>
    LET lines == splitlines(bw[i].template)
    IN /\ Len(bw[i].cfg) = Len(lines)
       /\ \A k \in 1..Len(lines) :
            /\ \A n \in 1..Len(bw[i].cfg[k]) : bw[i].cfg[k][n].fmt # fte
            /\ ConcatAll([n \in 1..Len(bw[i].cfg[k]) |-> bw[i].cfg[k][n].text])
                 = Substituted(lines[k], bw[i].repl_dict)

Scanned(j) == fw[j].pc \in {"scanned", "formed"}

\* the index of the first match equal to token
FirstOccurrence(found, token) ==
  CHOOSE n \in 1..Len(found) :
    found[n] = token /\ \A m \in 1..(n - 1) : found[m] # token

\* C3: the Token Set has no duplicates, holds exactly the placeholder strings
\* that occur in the template, in the order of their first occurrence, and the
\* template content is returned unchanged.
C3_TokenSet ==
  \A j \in 1..Len(fw) : Scanned(j) =>
    LET found == re_findall(tfile)
        var_list == fw[j].var_list
    IN /\ fw[j].config_template = tfile
       /\ \A a, b \in 1..Len(var_list) : a # b => var_list[a] # var_list[b]
       /\ { var_list[a] : a \in 1..Len(var_list) } = { found[n] : n \in 1..Len(found) }
       /\ \A a, b \in 1..Len(var_list) :
            a < b => FirstOccurrence(found, var_list[a]) < FirstOccurrence(found, var_list[b])

\* a scan of a template that repeats a token after a different one
C3_Witness ==
  \E j \in 1..Len(fw) :
    /\ Scanned(j)
    /\ Len(fw[j].var_list) = 2
    /\ Len(re_findall(tfile)) = 3

OnlyFmt(cfg_line, fmt) ==
  cfg_line # <<>> /\ \A n \in 1..Len(cfg_line) : cfg_line[n].fmt = fmt

\* C4: a line is written rich exactly when it has a LITERAL segment and a
\* FILLED or UNRESOLVED one, plain in the error style only when all its
\* segments are UNRESOLVED, plain in the highlight style only when all are
\* FILLED, plain in the body style only when all are LITERAL, and not at all
\* exactly when it has no segment.
C4_StylingCases ==
  \A i \in 1..Len(bw) : Rendered(i) =>
    \A k \in 1..Len(bw[i].cfg) :
      LET cfg_line == bw[i].cfg[k]
          at == <<k - 1, bw[i].col_idx - 2>>
          cells == bw[i].worksheet.cells
          plain(fmt) == /\ at \in DOMAIN cells
                        /\ cells[at].call = "write_string"
                        /\ cells[at].args[1].fmt = fmt
      IN /\ (at \in DOMAIN cells /\ cells[at].call = "write_rich_string")
              <=> (has_fmt(cfg_line, ftb)
                   /\ (has_fmt(cfg_line, fthl) \/ has_fmt(cfg_line, fte)))
         /\ plain(fte) => OnlyFmt(cfg_line, fte)
         /\ plain(fthl) => OnlyFmt(cfg_line, fthl)
         /\ plain(ftb) => OnlyFmt(cfg_line, ftb)
         /\ (at \notin DOMAIN cells) <=> (cfg_line = <<>>)

\* C5 (as stated): for the empty template the scan returns the empty Token Set
\* and the rendering is one line with no segment.
C5_EmptyTemplateOneLine ==
  /\ \A j \in 1..Len(fw) : (Scanned(j) /\ tfile = <<>>) => fw[j].var_list = <<>>
  /\ \A i \in 1..Len(bw) : (Rendered(i) /\ bw[i].template = <<>>) =>
       (Len(bw[i].cfg) = 1 /\ bw[i].cfg[1] = <<>>)

\* C5 (amended): for the empty template the scan returns the empty Token Set
\* and the rendering has no line at all, so that no cell is written.
C5_EmptyTemplateNoLine ==
  /\ \A j \in 1..Len(fw) : (Scanned(j) /\ tfile = <<>>) => fw[j].var_list = <<>>
  /\ \A i \in 1..Len(bw) : (Rendered(i) /\ bw[i].template = <<>>) =>
       (Len(bw[i].cfg) = 0 /\ DOMAIN bw[i].worksheet.cells = {})

\* the empty template scanned and rendered for a column
C5_Witness ==
  /\ tfile = <<>>
  /\ \E j \in 1..Len(fw) : Scanned(j)
  /\ \E i \in 1..Len(bw) : Rendered(i) /\ bw[i].template = <<>>
\* two workers that have gone past the guard of run() to the read of the form
Accessed(i) == bw[i].pc # "started"

\* C6: each generated Value Form file is read by at most one rendering unit:
\* no two BuildOutputWorkers, running together or one after the other, access
\* the same form path.
C6_FormReadByOneUnit ==
  \A i, k \in 1..Len(bw) :
    (i # k /\ Accessed(i) /\ Accessed(k))
      => bw[i].variable_file_path # bw[k].variable_file_path

\* a click of Replace while the template is not scanned or no form is known
C7_RejectedBuildStep ==
  ( /\ clicked'.build > clicked.build
    /\ ("config_template" \notin data.keys \/ "variable_file_path" \notin data.keys) )
  => /\ "Missing template or variable file" \in log'
     /\ ~crashed'
     /\ UNCHANGED << data, output_report, output_dir, build_thread, bw, fw, files,
                     outputs, events >>

LabelsIntact(grid, var_list) ==
  /\ Len(grid) >= Len(var_list)
  /\ \A r \in 1..Len(var_list) : grid[r][1] = var_list[r]

\* C8: in a form made by create_excel_form and edited only in its instance
\* columns, row i of column 0 holds TokenSet[i]; and the value the output is
\* built with for TokenSet[i] in instance column c is the form cell (i, c).
C8_RowCorrespondence ==
  /\ \A j \in 1..Len(fw) :
       (fw[j].pc = "formed" /\ ~files[fw[j].variable_file_path].labels_edited)
         => LabelsIntact(files[fw[j].variable_file_path].grid, fw[j].var_list)
  /\ \A i \in 1..Len(bw) : \A j \in 1..Len(fw) :
       ( /\ Rendered(i)
         /\ fw[j].variable_file_path = bw[i].variable_file_path
         /\ LabelsIntact(bw[i].form, fw[j].var_list) )
       => \A r \in 1..Len(fw[j].var_list) :
            dict_get(bw[i].repl_dict, fw[j].var_list[r])
              = cell_value(bw[i].form, r - 1, bw[i].col_idx - 1)

\* the second instance column rendered from a form with two token rows that
\* hold different values in that column
C8_Witness ==
  \E i \in 1..Len(bw) : \E j \in 1..Len(fw) :
    /\ Rendered(i)
    /\ bw[i].col_idx = 3
    /\ fw[j].variable_file_path = bw[i].variable_file_path
    /\ Len(fw[j].var_list) = 2
    /\ LabelsIntact(bw[i].form, fw[j].var_list)
    /\ cell_value(bw[i].form, 0, 2) = <<"x">>
    /\ cell_value(bw[i].form, 1, 2) = <<" ">>

\* C9: the run of every started worker ends with a notification for the
\* caller: fill_complete emitted by a FillValuesWorker, the finished signal of
\* a BuildOutputWorker queued for or delivered to build_finished.
C9_EveryRunNotifies ==
  /\ \A j \in 1..Len(fw) : ~fw[j].running => fw[j].pc = "formed"
  /\ \A i \in 1..Len(bw) : ~bw[i].running => bw[i].notice \in {"queued", "delivered"}

\* C10: the instance columns are written one at a time in increasing order,
\* form column c to output column c - 1, and rendered line r of the template
\* is written at row r, the row advancing also over lines without a segment,
\* which leave their cell blank.
C10_ColumnsAndRows ==
  \A i \in 1..Len(bw) : bw[i].pc \in {"writing", "closed", "removed"} =>
    LET done == bw[i].col_idx - 1
        ws == bw[i].worksheet
        lines == splitlines(bw[i].template)
        rendered(c) == sub_get_string(bw[i].template, repl_dict(bw[i].form, c))
    IN /\ done \in 0..(ncols(bw[i].form) - 1)
       /\ ws.columns = [c \in 1..done |-> <<c - 1, ColWidth>>]
       /\ \A c \in 1..done : \A r \in 1..Len(lines) :
            LET line == rendered(c)[r]
                at == <<r - 1, c - 1>>
            IN IF line = <<>> THEN at \notin DOMAIN ws.cells
               ELSE /\ at \in DOMAIN ws.cells
                    /\ \/ ws.cells[at].args = line
                       \/ /\ Len(ws.cells[at].args) = 1
                          /\ strip(ws.cells[at].args[1].text)
                               = strip(line[Len(line)].text)
       /\ \A at \in DOMAIN ws.cells :
            at[1] \in 0..(Len(lines) - 1) /\ at[2] \in 0..(done - 1)

\* two columns written of a template whose second line has no segment and
\* whose third line has one
C10_Witness ==
  \E i \in 1..Len(bw) :
    /\ bw[i].col_idx = 3
    /\ bw[i].pc = "closed"
    /\ Len(bw[i].cfg) = 3
    /\ <<1, 1>> \notin DOMAIN bw[i].worksheet.cells
    /\ <<2, 1>> \in DOMAIN bw[i].worksheet.cells
    /\ <<2, 0>> \in DOMAIN bw[i].worksheet.cells

\* the successive positions of one run of BuildOutputWorker
RunOrder ==
  { <<"started", "returned">>, <<"started", "raised">>, <<"started", "read">>,
    <<"read", "writing">>, <<"writing", "closed">>, <<"writing", "raised">>,
    <<"closed", "removed">> }

C11_RunStep ==
  /\ \A i \in 1..Len(bw) :
       LET old == bw[i]
           new == bw'[i]
           p == old.variable_file_path
       IN /\ new.pc # old.pc => <<old.pc, new.pc>> \in RunOrder
          /\ (old.pc = "writing" /\ new.pc = "closed") =>
               /\ old.worksheet.columns =
                    [c \in 1..(ncols(old.form) - 1) |-> <<c - 1, ColWidth>>]
               /\ outputs'[old.output_report] = old.worksheet
          /\ (old.pc = "closed" /\ new.pc = "removed") =>
               /\ new.remove_failed <=> ~files[p].exists
               /\ ~files'[p].exists
               /\ ~crashed'
          /\ (old.pc # "raised" /\ new.pc = "raised") => files' = files
  /\ \A p \in 1..Len(files) :
       (files[p].exists /\ ~files'[p].exists) =>
         \E i \in 1..Len(bw) : /\ bw[i].variable_file_path = p
                               /\ bw[i].pc = "closed"
                               /\ bw'[i].pc = "removed"

\* C11: every run of BuildOutputWorker goes read-form, write-all-columns,
\* close, delete-form: the workbook is closed once, after the set_column and
\* cell writes of every instance column; the form is deleted only by the step
\* that follows that close; a deletion that fails is recorded and the run ends
\* as a successful one does; a run whose read or close raised deletes nothing.
C11_RunOrder == [][C11_RunStep]_vars

\* a run ended normally after its os.remove failed, all columns written, the
\* form deleted by the run of another worker
C11_Witness ==
  \E i \in 1..Len(bw) :
    /\ bw[i].pc = "removed"
    /\ bw[i].remove_failed
    /\ ~bw[i].running
    /\ ~crashed
    /\ bw[i].col_idx = ncols(bw[i].form)
    /\ bw[i].output_report \in DOMAIN outputs
====
